---------------------------- MODULE Spec2Model ----------------------------
(***************************************************************************)
(* Model of the multi-agent pipeline of src/app.py (the /stream generator, *)
(* call_llm, extract_code) and of the review loop of                       *)
(* src/multi_agent_ollama.py.                                              *)
(*                                                                         *)
(* A text is a sequence of characters, each character a one-element        *)
(* string.  The fixed literals the generator writes ("event: ", "data: ",  *)
(* a stage name) are kept as one element each.                             *)
(***************************************************************************)
EXTENDS Naturals, Integers, Sequences, FiniteSets, TLC

VARIABLES
  pc,       \* per run: the line of event_stream the generator is at
  loc,      \* per run: the local variables of event_stream
  out,      \* per run: the chunks the generator has yielded, in order
  exc,      \* per run: the exception that ended the generator, if any
  calls,    \* per run: the requests sent to the backend, in order
  proc,     \* per run: the test child process (what it read, what it wrote)
  disk,     \* the working directory: the two fixed-name files
  text,     \* ExtractSpec: the argument given to extract_code
  res,      \* ExtractSpec: results of successive extract_code applications
  cli       \* MainSpec: main() of multi_agent_ollama.py: its line, locals, requests

xvars == <<text, res>>
pvars == <<pc, loc, out, exc, calls, proc, disk>>
vars == <<pc, loc, out, exc, calls, proc, disk, text, res, cli>>

----------------------------------------------------------------------------
(* Characters *)

BT  == "<bt>"      \* the backtick character
LF  == "\n"
CR  == "\r"
SP  == " "
TAB == "\t"

\* str.strip() with no argument removes these (the ones the model's texts use)
Whitespace == {SP, LF, CR, TAB}

\* str.splitlines() breaks lines at these (CR LF counts as one break)
LineBreaks == {LF, CR}

FENCE  == <<BT, BT, BT>>
PYTHON == <<"p", "y", "t", "h", "o", "n">>

----------------------------------------------------------------------------
(* str.strip *)

RECURSIVE lstrip(_)
lstrip(s) ==
  IF s = <<>> THEN s
  ELSE IF Head(s) \in Whitespace THEN lstrip(Tail(s)) ELSE s

RECURSIVE rstrip(_)
rstrip(s) ==
  IF s = <<>> THEN s
  ELSE IF s[Len(s)] \in Whitespace THEN rstrip(SubSeq(s, 1, Len(s) - 1)) ELSE s

strip(s) == rstrip(lstrip(s))

(* str.splitlines: acc holds the finished lines, cur the line being read.  *)
(* A line break ends the current line, even an empty one; at the end of    *)
(* the text an unfinished non-empty line is kept, so no empty last line.   *)
RECURSIVE splitacc(_, _, _)
splitacc(s, cur, acc) ==
  IF s = <<>> THEN (IF cur = <<>> THEN acc ELSE Append(acc, cur))
  ELSE IF Head(s) = CR /\ Len(s) >= 2 /\ s[2] = LF
       THEN splitacc(Tail(Tail(s)), <<>>, Append(acc, cur))
  ELSE IF Head(s) \in LineBreaks
       THEN splitacc(Tail(s), <<>>, Append(acc, cur))
  ELSE splitacc(Tail(s), Append(cur, Head(s)), acc)

splitlines(s) == splitacc(s, <<>>, <<>>)

----------------------------------------------------------------------------
(* re.search of extract_code: a fence, an optional "python", a newline, a   *)
(* lazy group and a closing fence, with re.S.                              *)

StartsWithAt(t, i, pat) ==
  /\ i >= 1
  /\ i + Len(pat) - 1 <= Len(t)
  /\ SubSeq(t, i, i + Len(pat) - 1) = pat

\* a greedy group (.*) and the closing fence: the last position >= k where a fence starts
RECURSIVE GreedyClose(_, _)
GreedyClose(t, k) ==
  IF k > Len(t) THEN 0
  ELSE LET later == GreedyClose(t, k + 1)
       IN IF later # 0 THEN later
          ELSE IF StartsWithAt(t, k, FENCE) THEN k ELSE 0

\* (.*?) and the closing fence from position k: the first position >= k where a fence starts,
\* 0 when there is none (re.S: the dot matches every character)
RECURSIVE LazyClose(_, _)
LazyClose(t, k) ==
  IF k > Len(t) THEN 0
  ELSE IF StartsWithAt(t, k, FENCE) THEN k
  ELSE LazyClose(t, k + 1)

NoMatch == [found |-> FALSE, from |-> 0, to |-> 0]

\* the group (.*?) matched from position b: text[b .. close-1]
GroupFrom(t, b) ==
  LET c == LazyClose(t, b)
  IN IF c = 0 THEN NoMatch ELSE [found |-> TRUE, from |-> b, to |-> c - 1]

\* the pattern tried at position i: the optional group first with "python",
\* then, on failure, without it
MatchAt(t, i) ==
  IF ~StartsWithAt(t, i, FENCE) THEN NoMatch
  ELSE LET withHint ==
             IF StartsWithAt(t, i + 3, PYTHON \o <<LF>>)
             THEN GroupFrom(t, i + 3 + Len(PYTHON) + 1)
             ELSE NoMatch
           noHint ==
             IF StartsWithAt(t, i + 3, <<LF>>)
             THEN GroupFrom(t, i + 3 + 1)
             ELSE NoMatch
       IN IF withHint.found THEN withHint ELSE noHint

\* re.search: the leftmost position where the pattern matches
RECURSIVE Search(_, _)
Search(t, i) ==
  IF i > Len(t) THEN NoMatch
  ELSE LET m == MatchAt(t, i)
       IN IF m.found THEN m ELSE Search(t, i + 1)

extract_code_nostrip(t) ==
  LET m == Search(t, 1)
  IN IF m.found THEN SubSeq(t, m.from, m.to) ELSE strip(t)

extract_code(t) ==
  LET m == Search(t, 1)
  IN IF m.found THEN strip(SubSeq(t, m.from, m.to)) ELSE strip(t)

----------------------------------------------------------------------------
(* call_llm: one blocking request to the backend and the decoding of its   *)
(* reply.                                                                  *)

MaxFragments == 2

\* texts the backend may generate
RespFenced   == FENCE \o PYTHON \o <<LF, "x", LF>> \o FENCE
RespTwoLines == <<"x", LF, "x">>
RespCR       == <<"x", CR, "x">>
RespEmpty    == <<>>
Responses    == {RespFenced, RespTwoLines, RespCR, RespEmpty}

\* One line of a reply body: a JSON object with or without a "response"
\* field, a JSON value that is no object, or text that is no JSON.
Fragments ==
  {[kind |-> "object", has |-> TRUE, response |-> t] : t \in Responses}
    \cup {[kind |-> "object", has |-> FALSE, response |-> <<>>],
          [kind |-> "nonobject", has |-> FALSE, response |-> <<>>],
          [kind |-> "garbage", has |-> FALSE, response |-> <<>>]}

RECURSIVE BodiesUpTo(_)
BodiesUpTo(n) ==
  IF n = 0 THEN {<<>>}
  ELSE LET shorter == BodiesUpTo(n - 1)
       IN shorter \cup {Append(b, f) : b \in shorter, f \in Fragments}

\* What requests.post may meet: no connection, an error status, or a
\* success status with a body of lines.
Replies ==
  {[reach |-> FALSE, status |-> 0, body |-> <<>>],
   [reach |-> TRUE, status |-> 500, body |-> <<>>]}
    \cup {[reach |-> TRUE, status |-> 200, body |-> b] :
            b \in BodiesUpTo(MaxFragments)}

Returned(t) == [ok |-> TRUE, text |-> t, type |-> "none"]
Raised(type) == [ok |-> FALSE, text |-> <<>>, type |-> type]

\* data.get("response", "").strip()
GetResponse(f) ==
  IF f.kind # "object" THEN Raised("AttributeError")
  ELSE Returned(strip(IF f.has THEN f.response ELSE <<>>))

call_llm(reply) ==
  IF ~reply.reach THEN Raised("ConnectionError")
  ELSE IF reply.status >= 400 THEN Raised("HTTPError")
  ELSE IF Len(reply.body) = 1 /\ reply.body[1].kind # "garbage"
       THEN GetResponse(reply.body[1])
  ELSE IF reply.body = <<>> THEN Raised("IndexError")
  ELSE IF reply.body[Len(reply.body)].kind = "garbage"
       THEN Raised("JSONDecodeError")
  ELSE GetResponse(reply.body[Len(reply.body)])

----------------------------------------------------------------------------
(* The agents and the task *)

AgentOf(name) ==
  [name |-> name,
   role |-> CASE name = "Coder" ->
                   "an expert Python developer who writes clear, efficient code"
              [] name = "Tester" ->
                   "a meticulous code reviewer who finds bugs and suggests improvements"
              [] name = "TestAgent" ->
                   "a Python testing expert who writes and runs unittest tests"
              [] name = "Documenter" ->
                   "a technical writer who creates detailed docstrings and examples",
   model |-> "mistral"]

task ==
  <<"Write a Python function ", BT, "reverse_string(input_str: str) -> str", BT,
    " that returns the reversed string.">>

\* Agent.generate: the request it hands to call_llm
generate(agent, instruction) ==
  [model |-> agent.model,
   prompt |-> <<"You are ", agent.name, ", ", agent.role, ".", LF, "Instruction: ">>
                \o instruction
                \o <<LF, "Provide only the code (no explanation).">>]

----------------------------------------------------------------------------
(* The frames of the stream *)

StatusChunk(name) == <<"event: ", "status", LF, "data: ", name, LF, LF>>
EventChunk(tag)   == <<"event: ", tag, LF>>
DataChunk(line)   == <<"data: ">> \o line \o <<LF>>
BlankChunk        == <<LF>>

----------------------------------------------------------------------------
(* event_stream, statement by statement.  A label names the line the       *)
(* generator is at; "Lnn/f" is the generator blocked inside the call f     *)
(* made at line nn.                                                        *)

module_file == "reverse_string_module.py"
test_file   == "test_reverse_string.py"

Preamble ==
  <<"from reverse_string_module import reverse_string", LF,
    "import unittest", LF, LF>>

event_stream(l) ==
  CASE l = "L59"  -> [op |-> "status", name |-> "Coder", nxt |-> "L60"]
    [] l = "L60"  -> [op |-> "generate", agent |-> "Coder", raw |-> "raw_code",
                      var |-> "code", wait |-> "L60/requests.post", nxt |-> "L62"]
    [] l = "L60/requests.post" -> [op |-> "post", of |-> "L60"]
    [] l = "L62"  -> [op |-> "event", tag |-> "coder", nxt |-> "L63"]
    [] l = "L63"  -> [op |-> "lines", var |-> "code", nxt |-> "L68"]
    [] l = "L68"  -> [op |-> "status", name |-> "Tester", nxt |-> "L69"]
    [] l = "L69"  -> [op |-> "generate", agent |-> "Tester", raw |-> "raw_feedback",
                      var |-> "feedback", wait |-> "L69/requests.post", nxt |-> "L71"]
    [] l = "L69/requests.post" -> [op |-> "post", of |-> "L69"]
    [] l = "L71"  -> [op |-> "event", tag |-> "tester", nxt |-> "L72"]
    [] l = "L72"  -> [op |-> "lines", var |-> "feedback", nxt |-> "L77"]
    [] l = "L77"  -> [op |-> "status", name |-> "TestAgent", nxt |-> "L78"]
    [] l = "L78"  -> [op |-> "generate", agent |-> "TestAgent", raw |-> "raw_tests",
                      var |-> "tests_body", wait |-> "L78/requests.post", nxt |-> "L82"]
    [] l = "L78/requests.post" -> [op |-> "post", of |-> "L78"]
    [] l = "L82"  -> [op |-> "event", tag |-> "testagent", nxt |-> "L83"]
    [] l = "L83"  -> [op |-> "lines", var |-> "tests", nxt |-> "L90"]
    [] l = "L90"  -> [op |-> "write", file |-> module_file, var |-> "code", nxt |-> "L92"]
    [] l = "L92"  -> [op |-> "write", file |-> test_file, var |-> "tests", nxt |-> "L94"]
    [] l = "L94"  -> [op |-> "run", wait |-> "L94/subprocess.run", nxt |-> "L95"]
    [] l = "L94/subprocess.run" -> [op |-> "child", of |-> "L94"]
    [] l = "L95"  -> [op |-> "remove", file |-> module_file, nxt |-> "L96"]
    [] l = "L96"  -> [op |-> "remove", file |-> test_file, nxt |-> "L97"]
    [] l = "L97"  -> [op |-> "join", nxt |-> "L98"]
    [] l = "L98"  -> [op |-> "event", tag |-> "test_results", nxt |-> "L99"]
    [] l = "L99"  -> [op |-> "lines", var |-> "results_text", nxt |-> "L104"]
    [] l = "L104" -> [op |-> "status", name |-> "Documenter", nxt |-> "L105"]
    [] l = "L105" -> [op |-> "generate", agent |-> "Documenter", raw |-> "raw_docs",
                      var |-> "docs", wait |-> "L105/requests.post", nxt |-> "L107"]
    [] l = "L105/requests.post" -> [op |-> "post", of |-> "L105"]
    [] l = "L107" -> [op |-> "event", tag |-> "documenter", nxt |-> "L108"]
    [] l = "L108" -> [op |-> "lines", var |-> "docs", nxt |-> "L113"]
    [] l = "L113" -> [op |-> "status", name |-> "Done", nxt |-> "returned"]
    [] OTHER      -> [op |-> "none"]

\* the Documenter stage placed before the test run
Line_DocumenterFirst(l) ==
  CASE l = "L83"  -> [event_stream(l) EXCEPT !.nxt = "L104"]
    [] l = "L108" -> [event_stream(l) EXCEPT !.nxt = "L90"]
    [] l = "L99"  -> [event_stream(l) EXCEPT !.nxt = "L113"]
    [] OTHER      -> event_stream(l)

\* the Tester's status marker copied from the Coder's and not renamed
Line_CopiedStatus(l) ==
  IF l = "L68" THEN [event_stream(l) EXCEPT !.name = "Coder"]
  ELSE event_stream(l)

\* a review loop: after the Tester's frame the Coder is called again
Line_ReviewLoop(l) ==
  IF l = "L72" THEN [event_stream(l) EXCEPT !.nxt = "L60"]
  ELSE event_stream(l)

\* the statement at label l
Line(l) == event_stream(l)

\* the Documenter is given the reviewed code: the Tester's patch when
\* there is one
Instruction_Reviewed(l, locals) ==
  CASE l = "L60"  -> task
    [] l = "L69"  ->
         <<"Review the code and suggest fixes (only output code if patch):", LF>>
           \o locals.code
    [] l = "L78"  ->
         <<"Write Python unittest tests for this function, including import statements:", LF>>
           \o locals.code
    [] l = "L105" ->
         <<"Write a detailed docstring with examples and edge case descriptions for the following code:", LF>>
           \o locals.feedback

\* the instruction each generate call builds from the locals
Instruction(l, locals) ==
  CASE l = "L60"  -> task
    [] l = "L69"  ->
         <<"Review the code and suggest fixes (only output code if patch):", LF>>
           \o locals.code
    [] l = "L78"  ->
         <<"Write Python unittest tests for this function, including import statements:", LF>>
           \o locals.code
    [] l = "L105" ->
         <<"Write a detailed docstring with examples and edge case descriptions for the following code:", LF>>
           \o locals.code

\* the test module is the TestAgent's text as it came, without the imports
Bind_BodyOnly(locals, l, raw) ==
  LET ex == extract_code(raw)
      bound == [locals EXCEPT ![Line(l).raw] = raw, ![Line(l).var] = ex]
  IN IF l = "L78" THEN [bound EXCEPT !.tests = ex] ELSE bound

\* the assignments that follow a generate call: the raw reply, the
\* extracted text and, for the TestAgent, the synthesized test module
Bind(locals, l, raw) ==
  LET ex == extract_code(raw)
      bound == [locals EXCEPT ![Line(l).raw] = raw, ![Line(l).var] = ex]
  IN IF l = "L78" THEN [bound EXCEPT !.tests = Preamble \o ex] ELSE bound

RunIds == {1, 2}

NoFile == [exists |-> FALSE, content |-> <<>>, writer |-> 0]

NoResult == [returncode |-> 0, stdout |-> <<>>, stderr |-> <<>>]

NoProc ==
  [launched |-> FALSE, exited |-> FALSE, module |-> NoFile, test |-> NoFile,
   writes |-> <<>>]

NoExc == [type |-> "none", at |-> "none"]

LocInit ==
  [raw_code |-> <<>>, code |-> <<>>, raw_feedback |-> <<>>, feedback |-> <<>>,
   raw_tests |-> <<>>, tests_body |-> <<>>, tests |-> <<>>,
   result |-> NoResult, results_text |-> <<>>, raw_docs |-> <<>>,
   docs |-> <<>>, i |-> 0]

----------------------------------------------------------------------------
(* The review loop: main() of src/multi_agent_ollama.py.  Its Agent has    *)
(* the call_llm of src/app.py as a method; the print calls write to the    *)
(* terminal and change nothing main reads.                                 *)

max_rounds == 2

Uppers ==
  <<"A", "B", "C", "D", "E", "F", "G", "H", "I", "J", "K", "L", "M",
    "N", "O", "P", "Q", "R", "S", "T", "U", "V", "W", "X", "Y", "Z">>

Lowers ==
  <<"a", "b", "c", "d", "e", "f", "g", "h", "i", "j", "k", "l", "m",
    "n", "o", "p", "q", "r", "s", "t", "u", "v", "w", "x", "y", "z">>

\* str.lower
lower(s) ==
  [k \in 1..Len(s) |->
     IF \E u \in 1..Len(Uppers) : Uppers[u] = s[k]
     THEN Lowers[CHOOSE u \in 1..Len(Uppers) : Uppers[u] = s[k]]
     ELSE s[k]]

\* pat in s
Contains(s, pat) ==
  \E i \in 1..(Len(s) - Len(pat) + 1) : SubSeq(s, i, i + Len(pat) - 1) = pat

NoIssues  == <<"n", "o", SP, "i", "s", "s", "u", "e", "s">>
LooksGood == <<"l", "o", "o", "k", "s", SP, "g", "o", "o", "d">>

\* the test compares the review as it came, without lower()
Satisfied_CaseSensitive(feedback) ==
  Contains(feedback, NoIssues) \/ Contains(feedback, LooksGood)

\* "no issues" in feedback.lower() or "looks good" in feedback.lower()
Satisfied(feedback) ==
  Contains(lower(feedback), NoIssues) \/ Contains(lower(feedback), LooksGood)

main_Agent(name) ==
  [name |-> name,
   role |-> CASE name = "Coder" ->
                   "an expert Python developer who writes clear, efficient, and bug-free code"
              [] name = "Tester" ->
                   "a meticulous code reviewer who finds bugs and suggests improvements following best practices"
              [] name = "Documenter" ->
                   "a technical writer who writes comprehensive docstrings, usage examples, and readme sections",
   model |-> "mistral"]

task_description ==
  <<"Write a Python function ", BT, "reverse_string(input_str: str) -> str", BT,
    " that returns the reversed string.">>

\* Agent.generate of the command-line program: the request it hands to
\* call_llm
Agent_generate(agent, instruction) ==
  [model |-> agent.model,
   prompt |-> <<"You are ", agent.name, ", ", agent.role, ".", LF, "Instruction: ">>
                \o instruction
                \o <<LF, "Provide your response below:">>]

\* main() as a table from a label (the source line of a statement) to the
\* statement: a generate call with the local it assigns, the for
\* statement, the if statement
main(l) ==
  CASE l = "L67" ->
         [op |-> "generate", agent |-> "Coder", var |-> "code",
          wait |-> "L67/requests.post", nxt |-> "L71"]
    [] l = "L67/requests.post" -> [op |-> "post", of |-> "L67"]
    [] l = "L71" -> [op |-> "for", body |-> "L72", done |-> "L89"]
    [] l = "L72" ->
         [op |-> "generate", agent |-> "Tester", var |-> "feedback",
          wait |-> "L72/requests.post", nxt |-> "L78"]
    [] l = "L72/requests.post" -> [op |-> "post", of |-> "L72"]
    [] l = "L78" -> [op |-> "if", break |-> "L89", nxt |-> "L83"]
    [] l = "L83" ->
         [op |-> "generate", agent |-> "Coder", var |-> "code",
          wait |-> "L83/requests.post", nxt |-> "L71"]
    [] l = "L83/requests.post" -> [op |-> "post", of |-> "L83"]
    [] l = "L89" ->
         [op |-> "generate", agent |-> "Documenter", var |-> "docs",
          wait |-> "L89/requests.post", nxt |-> "returned"]
    [] l = "L89/requests.post" -> [op |-> "post", of |-> "L89"]
    [] l \in {"returned", "raised"} -> [op |-> "none"]

\* the instruction each generate call of main builds from the locals
main_Instruction(l, locals) ==
  CASE l = "L67" -> task_description
    [] l = "L72" ->
         <<"Review the following code and suggest bug fixes or improvements:", LF>>
           \o locals.code
    [] l = "L83" ->
         <<"Improve the code based on this feedback:", LF>> \o locals.feedback
           \o <<LF, "Original code:", LF>> \o locals.code
    [] l = "L89" ->
         <<"Write a detailed docstring for the following function, include type hints, examples, and edge case descriptions:", LF>>
           \o locals.code

\* main before its first statement; round_num is 0 until the for statement
\* binds it
MainInit ==
  [pc |-> "L67", round_num |-> 0, code |-> <<>>, feedback |-> <<>>,
   docs |-> <<>>, calls |-> <<>>, exc |-> NoExc]

MainIdle == cli = MainInit

PipeInit ==
  /\ pc = [r \in RunIds |-> "L59"]
  /\ loc = [r \in RunIds |-> LocInit]
  /\ out = [r \in RunIds |-> <<>>]
  /\ exc = [r \in RunIds |-> NoExc]
  /\ calls = [r \in RunIds |-> <<>>]
  /\ proc = [r \in RunIds |-> NoProc]
  /\ disk = [f \in {module_file, test_file} |-> NoFile]

ExtractIdle ==
  /\ text = <<>>
  /\ res = <<>>

Init == PipeInit /\ ExtractIdle /\ MainIdle

\* the exception is caught and logged and the generator carries on
Raise_Swallowed(r, type) ==
  /\ pc' = [pc EXCEPT ![r] =
       IF Line(pc[r]).op \in {"post", "child"}
       THEN Line(Line(pc[r]).of).nxt ELSE Line(pc[r]).nxt]
  /\ exc' = [exc EXCEPT ![r] = [type |-> type, at |-> pc[r]]]

\* an exception leaves the generator: nothing more is yielded
Raise(r, type) ==
  /\ pc' = [pc EXCEPT ![r] = "raised"]
  /\ exc' = [exc EXCEPT ![r] = [type |-> type, at |-> pc[r]]]

\* yield "event: status\ndata: <name>\n\n"
YieldStatus(r) ==
  /\ Line(pc[r]).op = "status"
  /\ out' = [out EXCEPT ![r] = Append(@, StatusChunk(Line(pc[r]).name))]
  /\ pc' = [pc EXCEPT ![r] = Line(pc[r]).nxt]
  /\ UNCHANGED <<loc, exc, calls, proc, disk, text, res, cli>>

\* <agent>.generate(...) up to requests.post, which blocks for the reply
CallAgent(r) ==
  /\ Line(pc[r]).op = "generate"
  /\ calls' = [calls EXCEPT ![r] =
       Append(@, generate(AgentOf(Line(pc[r]).agent), Instruction(pc[r], loc[r])))]
  /\ pc' = [pc EXCEPT ![r] = Line(pc[r]).wait]
  /\ UNCHANGED <<loc, out, exc, proc, disk, text, res, cli>>

\* the backend answers: call_llm returns or raises, and on return the
\* statement assigns the reply and its extract_code
ReplyArrives(r, reply) ==
  /\ Line(pc[r]).op = "post"
  /\ LET got == call_llm(reply)
         l == Line(pc[r]).of
     IN IF got.ok
        THEN /\ loc' = [loc EXCEPT ![r] = Bind(@, l, got.text)]
             /\ pc' = [pc EXCEPT ![r] = Line(l).nxt]
             /\ UNCHANGED exc
        ELSE /\ Raise(r, got.type)
             /\ UNCHANGED loc
  /\ UNCHANGED <<out, calls, proc, disk, text, res, cli>>

BackendReplies(r) == \E reply \in Replies : ReplyArrives(r, reply)

\* yield "event: <tag>\n", and the for loop over the payload's lines starts
YieldEvent(r) ==
  /\ Line(pc[r]).op = "event"
  /\ out' = [out EXCEPT ![r] = Append(@, EventChunk(Line(pc[r]).tag))]
  /\ loc' = [loc EXCEPT ![r].i = 0]
  /\ pc' = [pc EXCEPT ![r] = Line(pc[r]).nxt]
  /\ UNCHANGED <<exc, calls, proc, disk, text, res, cli>>

\* yield f"data: {<var>}\n": the payload in one chunk, unsplit
YieldData_Whole(r) ==
  /\ Line(pc[r]).op = "lines"
  /\ LET lines == splitlines(loc[r][Line(pc[r]).var])
     IN /\ loc[r].i < Len(lines)
        /\ out' = [out EXCEPT ![r] = Append(@, DataChunk(loc[r][Line(pc[r]).var]))]
        /\ loc' = [loc EXCEPT ![r].i = Len(lines)]
  /\ UNCHANGED <<pc, exc, calls, proc, disk, text, res, cli>>

\* for line in <var>.splitlines(): yield f"data: {line}\n"
YieldData(r) ==
  /\ Line(pc[r]).op = "lines"
  /\ LET lines == splitlines(loc[r][Line(pc[r]).var])
     IN /\ loc[r].i < Len(lines)
        /\ out' = [out EXCEPT ![r] = Append(@, DataChunk(lines[loc[r].i + 1]))]
        /\ loc' = [loc EXCEPT ![r].i = @ + 1]
  /\ UNCHANGED <<pc, exc, calls, proc, disk, text, res, cli>>

\* the loop is exhausted: yield "\n"
YieldBlank(r) ==
  /\ Line(pc[r]).op = "lines"
  /\ loc[r].i >= Len(splitlines(loc[r][Line(pc[r]).var]))
  /\ out' = [out EXCEPT ![r] = Append(@, BlankChunk)]
  /\ pc' = [pc EXCEPT ![r] = Line(pc[r]).nxt]
  /\ UNCHANGED <<loc, exc, calls, proc, disk, text, res, cli>>

\* both files opened under the name of the test file
WriteFile_SameName(r) ==
  /\ Line(pc[r]).op = "write"
  /\ disk' = [disk EXCEPT ![test_file] =
       [exists |-> TRUE, content |-> loc[r][Line(pc[r]).var], writer |-> r]]
  /\ pc' = [pc EXCEPT ![r] = Line(pc[r]).nxt]
  /\ UNCHANGED <<loc, out, exc, calls, proc, text, res, cli>>

\* with open(<file>, "w") as f: f.write(<var>)
\* open may raise (the file is not created); write may raise after open
\* has created or truncated the file
WriteFile(r) ==
  /\ Line(pc[r]).op = "write"
  /\ LET f == Line(pc[r]).file
     IN \E outcome \in {"written", "open raises", "write raises"} :
          CASE outcome = "written" ->
                 /\ disk' = [disk EXCEPT ![f] =
                      [exists |-> TRUE, content |-> loc[r][Line(pc[r]).var],
                       writer |-> r]]
                 /\ pc' = [pc EXCEPT ![r] = Line(pc[r]).nxt]
                 /\ UNCHANGED exc
            [] outcome = "open raises" ->
                 /\ Raise(r, "OSError")
                 /\ UNCHANGED disk
            [] outcome = "write raises" ->
                 /\ disk' = [disk EXCEPT ![f] =
                      [exists |-> TRUE, content |-> <<>>, writer |-> r]]
                 /\ Raise(r, "OSError")
  /\ UNCHANGED <<loc, out, calls, proc, text, res, cli>>

\* subprocess.run(["python", "-m", "unittest", test_file], ...): the child
\* starts and the generator blocks until it exits, or the launch raises
LaunchTests(r) ==
  /\ Line(pc[r]).op = "run"
  /\ \E started \in BOOLEAN :
       IF started
       THEN /\ proc' = [proc EXCEPT ![r].launched = TRUE]
            /\ pc' = [pc EXCEPT ![r] = Line(pc[r]).wait]
            /\ UNCHANGED exc
       ELSE /\ Raise(r, "FileNotFoundError")
            /\ UNCHANGED proc
  /\ UNCHANGED <<loc, out, calls, disk, text, res, cli>>

\* what a child may write, in the order it writes it, and its exit status
ChildWrites ==
  {<<>>,
   <<[fd |-> "stderr", data |-> <<"x", LF>>]>>,
   <<[fd |-> "stderr", data |-> <<"e", LF>>], [fd |-> "stdout", data |-> <<"o", LF>>]>>}

ExitStatuses == {0, 1}

RECURSIVE Captured(_, _)
Captured(writes, fd) ==
  IF writes = <<>> THEN <<>>
  ELSE (IF Head(writes).fd = fd THEN Head(writes).data ELSE <<>>)
         \o Captured(Tail(writes), fd)

\* CompletedProcess of subprocess.run(..., capture_output=True, text=True)
Completed(rc, writes) ==
  [returncode |-> rc, stdout |-> Captured(writes, "stdout"),
   stderr |-> Captured(writes, "stderr")]

\* subprocess.run(..., check=True): a non-zero exit status raises
ChildExits_Checked(r) ==
  /\ Line(pc[r]).op = "child"
  /\ \E rc \in ExitStatuses, writes \in ChildWrites :
       /\ proc' = [proc EXCEPT ![r] =
            [launched |-> TRUE, exited |-> TRUE, module |-> disk[module_file],
             test |-> disk[test_file], writes |-> writes]]
       /\ IF rc = 0
          THEN /\ loc' = [loc EXCEPT ![r].result = Completed(rc, writes)]
               /\ pc' = [pc EXCEPT ![r] = Line(Line(pc[r]).of).nxt]
               /\ UNCHANGED exc
          ELSE /\ Raise(r, "CalledProcessError")
               /\ UNCHANGED loc
  /\ UNCHANGED <<out, calls, disk, text, res, cli>>

\* the child reads the two files, writes its output and exits
ChildExits(r) ==
  /\ Line(pc[r]).op = "child"
  /\ \E rc \in ExitStatuses, writes \in ChildWrites :
       /\ proc' = [proc EXCEPT ![r] =
            [launched |-> TRUE, exited |-> TRUE, module |-> disk[module_file],
             test |-> disk[test_file], writes |-> writes]]
       /\ loc' = [loc EXCEPT ![r].result = Completed(rc, writes)]
  /\ pc' = [pc EXCEPT ![r] = Line(Line(pc[r]).of).nxt]
  /\ UNCHANGED <<out, exc, calls, disk, text, res, cli>>

\* the files are left where they are
RemoveFile_Kept(r) ==
  /\ Line(pc[r]).op = "remove"
  /\ pc' = [pc EXCEPT ![r] = Line(pc[r]).nxt]
  /\ UNCHANGED <<loc, out, exc, calls, proc, disk, text, res, cli>>

\* os.remove(<file>)
RemoveFile(r) ==
  /\ Line(pc[r]).op = "remove"
  /\ LET f == Line(pc[r]).file
     IN IF disk[f].exists
        THEN /\ disk' = [disk EXCEPT ![f] = NoFile]
             /\ pc' = [pc EXCEPT ![r] = Line(pc[r]).nxt]
             /\ UNCHANGED exc
        ELSE /\ Raise(r, "FileNotFoundError")
             /\ UNCHANGED disk
  /\ UNCHANGED <<loc, out, calls, proc, text, res, cli>>

\* results_text = result.stdout + result.stderr
JoinOutput(r) ==
  /\ Line(pc[r]).op = "join"
  /\ loc' = [loc EXCEPT ![r].results_text =
       loc[r].result.stdout \o loc[r].result.stderr]
  /\ pc' = [pc EXCEPT ![r] = Line(pc[r]).nxt]
  /\ UNCHANGED <<out, exc, calls, proc, disk, text, res, cli>>

\* the statements the generator runs by itself
GeneratorStep(r) ==
  \/ YieldStatus(r)
  \/ CallAgent(r)
  \/ YieldEvent(r)
  \/ YieldData(r)
  \/ YieldBlank(r)
  \/ WriteFile(r)
  \/ LaunchTests(r)
  \/ RemoveFile(r)
  \/ JoinOutput(r)

\* what the generator waits for: the backend's reply, the child's exit
EnvironmentStep(r) ==
  \/ BackendReplies(r)
  \/ ChildExits(r)

SingleRun == {1}

Next == \E r \in SingleRun : GeneratorStep(r) \/ EnvironmentStep(r)

Spec == Init /\ [][Next]_vars

\* The interpreter runs the generator's statements one after the other;
\* requests.post and subprocess.run are given no timeout, so nothing in
\* the code bounds how long the backend or the child takes.
FairSpec == Spec /\ \A r \in SingleRun : WF_vars(GeneratorStep(r))

----------------------------------------------------------------------------
(* ConcSpec: two requests to /stream served at the same time, each by its  *)
(* own generator, in one working directory.  The backend answers every     *)
(* call with the same well-formed reply, so that the runs differ only in   *)
(* how their statements interleave.                                        *)

ConcReplies ==
  {[reach |-> TRUE, status |-> 200,
    body |-> <<[kind |-> "object", has |-> TRUE, response |-> RespTwoLines]>>]}

BackendRepliesWell(r) == \E reply \in ConcReplies : ReplyArrives(r, reply)

ConcNext ==
  \E r \in RunIds :
    GeneratorStep(r) \/ BackendRepliesWell(r) \/ ChildExits(r)

ConcSpec == Init /\ [][ConcNext]_vars

----------------------------------------------------------------------------
(* ExtractSpec: extract_code applied to every text of a bounded set, then  *)
(* applied again to its own result.                                        *)

MaxPieces == 6

Pieces == {FENCE, PYTHON, <<LF>>, <<SP>>, <<"x">>}

RECURSIVE TextsUpTo(_)
TextsUpTo(n) ==
  IF n = 0 THEN {<<>>}
  ELSE LET shorter == TextsUpTo(n - 1)
       IN shorter \cup {p \o t : p \in Pieces, t \in shorter}

ExtractInit ==
  /\ PipeInit
  /\ MainIdle
  /\ text \in TextsUpTo(MaxPieces)
  /\ res = <<>>

Extract ==
  /\ res = <<>>
  /\ res' = <<extract_code(text)>>
  /\ UNCHANGED <<text, pc, loc, out, exc, calls, proc, disk, cli>>

ReExtract ==
  /\ Len(res) = 1
  /\ res' = Append(res, extract_code(res[1]))
  /\ UNCHANGED <<text, pc, loc, out, exc, calls, proc, disk, cli>>

ExtractNext == Extract \/ ReExtract

ExtractSpec == ExtractInit /\ [][ExtractNext]_vars

----------------------------------------------------------------------------
(* What a reader of the stream sees *)

StageTags == <<"coder", "tester", "testagent", "test_results", "documenter">>

TagSet == {StageTags[k] : k \in 1..Len(StageTags)}

IsTagged(c) == \E t \in TagSet : c = <<"event: ", t, LF>>

IsStatus(c) == Len(c) = 7 /\ c[1] = "event: " /\ c[2] = "status"

StatusFrame(name) == <<"event: ", "status", LF, "data: ", name, LF, LF>>

\* the tags of the stage events of a stream, in the order of emission
EmittedTags(o) ==
  LET ev == SelectSeq(o, IsTagged)
  IN [k \in 1..Len(ev) |-> ev[k][2]]

Terminated(r) == pc[r] \in {"returned", "raised"}

\* the labels at which the generator is blocked in requests.post
PostLabels ==
  {"L60/requests.post", "L69/requests.post", "L78/requests.post",
   "L105/requests.post"}

\* the number of stages that precede the stage of a generate call
StagesBefore(l) ==
  CASE l = "L60/requests.post"  -> 0
    [] l = "L69/requests.post"  -> 1
    [] l = "L78/requests.post"  -> 2
    [] l = "L105/requests.post" -> 4

----------------------------------------------------------------------------
(* C1: a run that returns has emitted the five stage events in the order   *)
(* coder, tester, testagent, test_results, documenter, its last frame is   *)
(* the status frame Done, and a Done frame is never followed by anything.  *)
C1_SuccessfulRunOrder ==
  \A r \in RunIds :
    /\ pc[r] = "returned" =>
         /\ EmittedTags(out[r]) = StageTags
         /\ out[r][Len(out[r])] = StatusFrame("Done")
         /\ ~ENABLED (GeneratorStep(r) \/ EnvironmentStep(r))
    /\ \A k \in 1..Len(out[r]) :
         out[r][k] = StatusFrame("Done") =>
           k = Len(out[r]) /\ pc[r] = "returned"

C1_Witness ==
  /\ pc[1] = "returned"
  /\ Len(calls[1]) = 4
  /\ proc[1].exited
  /\ loc[1].code # <<>>

(* C2 as stated: every stage event, test_results included, has a status    *)
(* frame before it with no stage event between the two (for an agent's     *)
(* stage the frame names the agent), and every backend request is sent     *)
(* after the status frame of its agent.                                    *)
StatusNameOf(tag) ==
  CASE tag = "coder" -> "Coder"
    [] tag = "tester" -> "Tester"
    [] tag = "testagent" -> "TestAgent"
    [] tag = "documenter" -> "Documenter"
    [] OTHER -> "none"

OwnStatusBefore(o, k) ==
  \E j \in 1..(k - 1) :
    /\ IsStatus(o[j])
    /\ StatusNameOf(o[k][2]) # "none" => o[j] = StatusFrame(StatusNameOf(o[k][2]))
    /\ \A m \in (j + 1)..(k - 1) : ~IsTagged(o[m])

RequestsAfterStatus(r) ==
  \A k \in 1..Len(calls[r]) :
    \E j \in 1..Len(out[r]) : out[r][j] = StatusFrame(calls[r][k].prompt[2])

C2_EveryStageHasStatus ==
  \A r \in RunIds :
    /\ \A k \in 1..Len(out[r]) : IsTagged(out[r][k]) => OwnStatusBefore(out[r], k)
    /\ RequestsAfterStatus(r)

(* C2, amended: each of the four agent stage events (coder, tester,        *)
(* testagent, documenter) has the status frame of its agent before it with *)
(* no stage event in between, and the request is sent after that frame;    *)
(* the test_results event has no status frame of its own: the last status  *)
(* frame before it is TestAgent's and the testagent event lies between.    *)
C2_AgentStagesHaveStatus ==
  \A r \in RunIds :
    /\ \A k \in 1..Len(out[r]) :
         IsTagged(out[r][k]) =>
           IF out[r][k][2] = "test_results"
           THEN \E j \in 1..(k - 1), m \in 1..(k - 1) :
                  /\ j < m
                  /\ out[r][j] = StatusFrame("TestAgent")
                  /\ out[r][m] = <<"event: ", "testagent", LF>>
                  /\ \A n \in (j + 1)..(k - 1) : ~IsStatus(out[r][n])
           ELSE OwnStatusBefore(out[r], k)
    /\ RequestsAfterStatus(r)

C2_Witness ==
  /\ pc[1] = "returned"
  /\ \E k \in 1..Len(out[1]) : out[1][k] = <<"event: ", "test_results", LF>>

(* C3 as stated: once the test-run step is over, by falling through or by  *)
(* an exception raised inside it, neither temporary file is on disk.       *)
BeforeTestRun ==
  {"L59", "L60", "L60/requests.post", "L62", "L63", "L68", "L69",
   "L69/requests.post", "L71", "L72", "L77", "L78", "L78/requests.post",
   "L82", "L83"}

TestRunLines == {"L90", "L92", "L94", "L94/subprocess.run", "L95", "L96"}

\* the exit paths the claim names: the step falls through (the child exited,
\* with any status), the launch raised, or the second write raised
TestRunOver(r) ==
  IF pc[r] = "raised" THEN exc[r].at \notin (BeforeTestRun \cup {"L90"})
  ELSE pc[r] \notin (BeforeTestRun \cup TestRunLines)

C3_NoResidue ==
  \A r \in RunIds :
    TestRunOver(r) => ~disk[module_file].exists /\ ~disk[test_file].exists

(* C4: when a backend call fails, the stage events emitted are exactly     *)
(* those of the earlier stages, and no Done frame is emitted.              *)
C4_FailureStopsLaterStages ==
  \A r \in RunIds :
    exc[r].at \in PostLabels =>
      /\ EmittedTags(out[r]) = SubSeq(StageTags, 1, StagesBefore(exc[r].at))
      /\ \A k \in 1..Len(out[r]) : out[r][k] # StatusFrame("Done")
      /\ ~ENABLED (GeneratorStep(r) \/ EnvironmentStep(r))

C4_Witness ==
  /\ pc[1] = "raised"
  /\ exc[1] = [type |-> "ConnectionError", at |-> "L69/requests.post"]
  /\ EmittedTags(out[1]) = <<"coder">>

(* C5 as stated: a run ended by a failed backend call has an error frame   *)
(* as the last frame of its stream.                                        *)
BackendErrors ==
  {"ConnectionError", "HTTPError", "JSONDecodeError", "IndexError",
   "AttributeError"}

IsErrorFrame(c) == Len(c) >= 2 /\ c[1] = "event: " /\ c[2] = "error"

C5_ErrorFrameSurfaced ==
  \A r \in RunIds :
    (pc[r] = "raised" /\ exc[r].type \in BackendErrors) =>
      /\ out[r] # <<>>
      /\ IsErrorFrame(out[r][Len(out[r])])

(* C6 as stated: a run in which the launch of the test child process       *)
(* failed still emits a test_results event and the documenter event, and   *)
(* ends with the Done frame.                                               *)
C6_LaunchFailureNotFatal ==
  \A r \in RunIds :
    (Terminated(r) /\ exc[r].at = "L94") =>
      /\ \E k \in 1..Len(out[r]) : out[r][k] = <<"event: ", "test_results", LF>>
      /\ \E k \in 1..Len(out[r]) : out[r][k] = <<"event: ", "documenter", LF>>
      /\ out[r][Len(out[r])] = StatusFrame("Done")

(* C7: whatever the child's exit status, its exit raises nothing: the only *)
(* exception possible afterwards is a failure of the Documenter's backend  *)
(* call; the test_results frame carries the lines of the captured output;  *)
(* and a run that ends without exception has emitted the five stage events *)
(* and the Done frame.                                                     *)
ResultsPayload(o) ==
  LET at == CHOOSE k \in 1..Len(o) : o[k] = <<"event: ", "test_results", LF>>
      end == CHOOSE k \in (at + 1)..Len(o) :
               /\ o[k] = <<LF>>
               /\ \A m \in (at + 1)..(k - 1) : o[m] # <<LF>>
  IN [k \in 1..(end - at - 1) |-> SubSeq(o[at + k], 2, Len(o[at + k]) - 1)]

C7_ExitStatusNotEscalated ==
  \A r \in RunIds :
    proc[r].exited =>
      /\ exc[r].type # "none" => exc[r].at = "L105/requests.post"
      /\ pc[r] \in {"L104", "L105", "L105/requests.post", "L107", "L108", "L113",
                    "returned"} =>
           ResultsPayload(out[r]) =
             splitlines(Captured(proc[r].writes, "stdout")
                          \o Captured(proc[r].writes, "stderr"))
      /\ (Terminated(r) /\ exc[r].type = "none") =>
           /\ EmittedTags(out[r]) = StageTags
           /\ out[r][Len(out[r])] = StatusFrame("Done")

C7_Witness ==
  /\ pc[1] = "returned"
  /\ loc[1].result.returncode = 1
  /\ proc[1].writes # <<>>

(* C8 as stated: every run ends its stream.                                *)
C8_StreamEnds == \A r \in SingleRun : <>Terminated(r)


----------------------------------------------------------------------------
(* The first fenced block of a text, as a reader of the text finds it: the *)
(* first fence, the run of hint characters right after it, a newline, and  *)
(* the interior up to the next fence.                                      *)

FenceAt(t, k) ==
  /\ k >= 1
  /\ k + 2 <= Len(t)
  /\ t[k] = BT /\ t[k + 1] = BT /\ t[k + 2] = BT

HasFence(t) == \E k \in 1..Len(t) : FenceAt(t, k)

FirstFence(t) ==
  CHOOSE k \in 1..Len(t) : FenceAt(t, k) /\ \A j \in 1..(k - 1) : ~FenceAt(t, j)

HintChar(c) == c \notin (Whitespace \cup {BT})

\* the length of the run of hint characters that follows the fence at k
HintLen(t, k) ==
  CHOOSE n \in 0..Len(t) :
    /\ \A j \in 1..n : k + 2 + j <= Len(t) /\ HintChar(t[k + 2 + j])
    /\ k + 3 + n > Len(t) \/ ~HintChar(t[k + 3 + n])

HintOf(t) == SubSeq(t, FirstFence(t) + 3, FirstFence(t) + 2 + HintLen(t, FirstFence(t)))

\* where the interior of the first block starts: after hint and newline
BodyStart(t) == FirstFence(t) + 3 + HintLen(t, FirstFence(t)) + 1

HasBlock(t) ==
  /\ HasFence(t)
  /\ BodyStart(t) - 1 <= Len(t)
  /\ t[BodyStart(t) - 1] = LF
  /\ \E c \in BodyStart(t)..Len(t) : FenceAt(t, c)

Interior(t) ==
  LET c == CHOOSE k \in BodyStart(t)..Len(t) :
             FenceAt(t, k) /\ \A j \in BodyStart(t)..(k - 1) : ~FenceAt(t, j)
  IN SubSeq(t, BodyStart(t), c - 1)

(* C9 as stated: for a text with a fenced block, whatever its language     *)
(* hint, extract_code returns the trimmed interior of the first block.     *)
C9_FirstBlockAnyHint ==
  (Len(res) >= 1 /\ HasBlock(text)) => res[1] = strip(Interior(text))

(* C9, amended: for a text whose first fence is followed at once by a      *)
(* newline, or by the hint python and a newline, and later by a closing    *)
(* fence, extract_code returns the trimmed interior of that first block,   *)
(* whatever follows the closing fence.  With any other hint the fence is   *)
(* not taken as an opening.                                                *)
C9_FirstBlockPythonHint ==
  (Len(res) >= 1 /\ HasBlock(text) /\ HintOf(text) \in {<<>>, PYTHON}) =>
    res[1] = strip(Interior(text))

C9_Witness ==
  /\ Len(res) >= 1
  /\ HasBlock(text)
  /\ HintOf(text) = PYTHON
  /\ Interior(text) = <<SP, "x">>
  /\ res[1] = <<"x">>

(* C10: extract_code applied to its own result returns that result.        *)
C10_Idempotent == Len(res) = 2 => res[2] = res[1]

C10_Witness ==
  /\ Len(res) = 2
  /\ HasBlock(text)
  /\ res[1] # <<>>
  /\ res[2] = res[1]
  /\ res[1] # strip(text)

----------------------------------------------------------------------------
(* Two runs in one working directory *)

OtherRun(r) == CHOOSE o \in RunIds : o # r

\* where a run is, or where it was when an exception ended it
Position(r) == IF pc[r] = "raised" THEN exc[r].at ELSE pc[r]

\* the child of run r was given a file that run r did not write
ReadForeignFile(r) ==
  /\ proc[r].exited
  /\ \/ proc[r].module.exists /\ proc[r].module.writer # r
     \/ proc[r].test.exists /\ proc[r].test.writer # r

\* os.remove of run r raised because the file was not there
RemovalFailed(r) ==
  /\ pc[r] = "raised"
  /\ exc[r].type = "FileNotFoundError"
  /\ exc[r].at \in {"L95", "L96"}

(* C11: two concurrent runs collide on the fixed file names.  The witness  *)
(* is an interleaving in which the child of one run reads files the other  *)
(* run wrote and the removal of the other run fails because the first run  *)
(* already removed the file.  In every interleaving these happen only      *)
(* through the other run: a child reads a foreign file only after the      *)
(* other run has written, and a removal fails only after the other run has *)
(* removed that file.                                                      *)
C11_CollisionOnlyThroughOtherRun ==
  \A r \in RunIds :
    /\ ReadForeignFile(r) =>
         /\ Position(OtherRun(r)) \notin BeforeTestRun
         /\ pc[OtherRun(r)] # "L90"
    /\ (RemovalFailed(r) /\ exc[r].at = "L95") =>
         Position(OtherRun(r)) \notin
           (BeforeTestRun \cup {"L90", "L92", "L94", "L94/subprocess.run", "L95"})
    /\ (RemovalFailed(r) /\ exc[r].at = "L96") =>
         Position(OtherRun(r)) \notin (BeforeTestRun \cup TestRunLines)

C11_Witness ==
  /\ ReadForeignFile(1)
  /\ proc[1].module.writer = 2
  /\ proc[1].test.writer = 2
  /\ RemovalFailed(2)
  /\ exc[2].at = "L95"

----------------------------------------------------------------------------
\* the frame of a stage is complete: its event line and, after it, the
\* blank line that ends it have been emitted
FrameComplete(o, tag) ==
  \E k \in 1..Len(o) :
    /\ o[k] = <<"event: ", tag, LF>>
    /\ \E m \in (k + 1)..Len(o) : o[m] = <<LF>>

NoRepeat(s) == \A j, k \in 1..Len(s) : j # k => s[j] # s[k]

AgentsCalled(r) == [k \in 1..Len(calls[r]) |-> calls[r][k].prompt[2]]

StagesInTurn(r) ==
  /\ NoRepeat(AgentsCalled(r))
  /\ NoRepeat(EmittedTags(out[r]))
  /\ \A k \in 1..Len(calls[r]) :
       AgentsCalled(r)[k] = <<"Coder", "Tester", "TestAgent", "Documenter">>[k]
  /\ Len(calls[r]) >= 2 => FrameComplete(out[r], "coder")
  /\ Len(calls[r]) >= 3 => FrameComplete(out[r], "tester")
  /\ (Position(r) \notin BeforeTestRun \/ proc[r].launched) =>
       FrameComplete(out[r], "testagent")
  /\ Len(calls[r]) >= 4 => FrameComplete(out[r], "test_results")

\* a generator whose child was launched does not come to the launch again
LaunchedOnce(r) ==
  (proc[r].launched /\ pc[r] # "L94") => pc'[r] # "L94"

(* C12: in every run, ended or not, each agent is called at most once and  *)
(* in the order Coder, Tester, TestAgent, Documenter, the child is         *)
(* launched at most once, each stage event is emitted at most once, and    *)
(* the work of a stage (its backend call, or the writing and running of    *)
(* the tests) starts only after the blank line that ends the frame of the  *)
(* stage before it.                                                        *)
C12_StagesSequentialOnce ==
  /\ [](\A r \in RunIds : StagesInTurn(r))
  /\ [][\A r \in RunIds : LaunchedOnce(r)]_vars

C12_Witness ==
  /\ pc[1] = "raised"
  /\ exc[1].at = "L105/requests.post"
  /\ Len(calls[1]) = 4
  /\ proc[1].launched
  /\ Len(EmittedTags(out[1])) = 4

----------------------------------------------------------------------------
(* PairSpec: two requests to /stream served one after the other, each      *)
(* answered by well-formed replies that may differ from call to call and   *)
(* from run to run; the two runs are compared with each other.             *)

PairReplies ==
  {[reach |-> TRUE, status |-> 200,
    body |-> <<[kind |-> "object", has |-> TRUE, response |-> t]>>] :
     t \in {RespFenced, RespTwoLines}}

BackendRepliesEither(r) == \E reply \in PairReplies : ReplyArrives(r, reply)

PairNext ==
  \E r \in RunIds :
    /\ r = 1 \/ Terminated(1)
    /\ GeneratorStep(r) \/ BackendRepliesEither(r) \/ ChildExits(r)

PairSpec == Init /\ [][PairNext]_vars

\* the stream without the frame of one stage
WithoutFrame(o, tag) ==
  LET k == CHOOSE k \in 1..Len(o) : o[k] = <<"event: ", tag, LF>>
      m == CHOOSE m \in (k + 1)..Len(o) :
             /\ o[m] = <<LF>>
             /\ \A j \in (k + 1)..(m - 1) : o[j] # <<LF>>
  IN SubSeq(o, 1, k - 1) \o SubSeq(o, m + 1, Len(o))

SameCoderResponse ==
  /\ \A r \in RunIds : Len(calls[r]) >= 1 /\ Position(r) # "L60/requests.post"
  /\ loc[1].raw_code = loc[2].raw_code

SameButTester ==
  /\ SameCoderResponse
  /\ pc[1] = "returned" /\ pc[2] = "returned"
  /\ loc[1].raw_tests = loc[2].raw_tests
  /\ loc[1].raw_docs = loc[2].raw_docs
  /\ loc[1].result = loc[2].result

(* C13: two runs that got the same Coder response send the same TestAgent  *)
(* request and the same Documenter request and have the same module file   *)
(* read by their child, whatever the Tester and the TestAgent answered;    *)
(* and two finished runs that differ in nothing but the Tester's response  *)
(* emit the same stream outside the tester frame.                          *)
C13_OnlyCodeThreaded ==
  /\ SameCoderResponse =>
       /\ \A k \in {3, 4} :
            (Len(calls[1]) >= k /\ Len(calls[2]) >= k) => calls[1][k] = calls[2][k]
       /\ (proc[1].exited /\ proc[2].exited) =>
            /\ proc[1].module.exists /\ proc[2].module.exists
            /\ proc[1].module.content = proc[2].module.content
  /\ SameButTester =>
       WithoutFrame(out[1], "tester") = WithoutFrame(out[2], "tester")

C13_Witness ==
  /\ SameButTester
  /\ loc[1].raw_feedback # loc[2].raw_feedback
  /\ out[1] # out[2]
  /\ Len(calls[1]) = 4 /\ Len(calls[2]) = 4
  /\ proc[1].exited /\ proc[2].exited

----------------------------------------------------------------------------
\* the payload lines of the frame of one stage, without "data: " and the
\* line end
Payload(o, tag) ==
  LET at == CHOOSE k \in 1..Len(o) : o[k] = <<"event: ", tag, LF>>
      end == CHOOSE k \in (at + 1)..Len(o) :
               /\ o[k] = <<LF>>
               /\ \A m \in (at + 1)..(k - 1) : o[m] # <<LF>>
  IN [k \in 1..(end - at - 1) |-> SubSeq(o[at + k], 2, Len(o[at + k]) - 1)]

\* the child of run r is being launched or is running
AtLaunch(r) == pc[r] \in {"L94", "L94/subprocess.run"}

(* C14: when the child of a single run is launched, the module file holds  *)
(* the text extracted from the Coder's response and the test file holds    *)
(* the two import lines and the blank line of line 81 followed by the text *)
(* extracted from the TestAgent's response, unchanged; the lines of the    *)
(* test file are the payload lines of the testagent frame.                 *)
C14_FilesAtLaunch ==
  \A r \in SingleRun :
    AtLaunch(r) =>
      /\ disk[module_file].exists /\ disk[test_file].exists
      /\ disk[module_file].content = extract_code(loc[r].raw_code)
      /\ disk[test_file].content =
           <<"from reverse_string_module import reverse_string", LF,
             "import unittest", LF, LF>> \o extract_code(loc[r].raw_tests)
      /\ splitlines(disk[test_file].content) = Payload(out[r], "testagent")

C14_Witness ==
  /\ pc[1] = "L94/subprocess.run"
  /\ proc[1].launched
  /\ loc[1].raw_tests = RespFenced
  /\ loc[1].raw_code = RespTwoLines
  /\ Len(Payload(out[1], "testagent")) = 4

----------------------------------------------------------------------------
(* C15: every stage frame that has been closed by its blank line carries   *)
(* at least one payload line, whatever the backend answered and whatever   *)
(* the child wrote.                                                        *)
C15_EveryFrameHasPayload ==
  \A r \in SingleRun :
    \A tag \in TagSet :
      FrameComplete(out[r], tag) => Len(Payload(out[r], tag)) >= 1

----------------------------------------------------------------------------
\* what the child wrote, in the order it wrote it, whichever the stream
RECURSIVE Chronological(_)
Chronological(writes) ==
  IF writes = <<>> THEN <<>>
  ELSE Head(writes).data \o Chronological(Tail(writes))

(* C16: the payload of the test_results frame is the child's output on     *)
(* standard output and standard error in the order the child wrote it: a   *)
(* line written to standard error before a line written to standard output *)
(* comes first in the payload.                                             *)
C16_ChronologicalOutput ==
  \A r \in SingleRun :
    FrameComplete(out[r], "test_results") =>
      Payload(out[r], "test_results") = splitlines(Chronological(proc[r].writes))

----------------------------------------------------------------------------
\* what a reader of the stream makes of a frame: its data lines joined by
\* newlines
RECURSIVE Joined(_)
Joined(lines) ==
  IF lines = <<>> THEN <<>>
  ELSE IF Len(lines) = 1 THEN lines[1]
  ELSE lines[1] \o <<LF>> \o Joined(Tail(lines))

\* the local whose text is the payload of a stage
PayloadVar(tag) ==
  CASE tag = "coder"        -> "code"
    [] tag = "tester"       -> "feedback"
    [] tag = "testagent"    -> "tests"
    [] tag = "test_results" -> "results_text"
    [] tag = "documenter"   -> "docs"

(* C17: for every stage frame that has been closed, the data lines of the  *)
(* frame joined by newlines are exactly the payload the stage produced,    *)
(* whatever characters the payload holds.                                  *)
C17_FramingRoundTrips ==
  \A r \in SingleRun :
    \A tag \in TagSet :
      FrameComplete(out[r], tag) =>
        Joined(Payload(out[r], tag)) = loc[r][PayloadVar(tag)]

----------------------------------------------------------------------------
\* the generator of run r yields: a chunk is handed to the consumer and
\* the generator is suspended
Yields(r) == out'[r] # out[r]

(* C18: in a single run started in a directory without the two files,      *)
(* whenever the generator yields, neither temporary file exists: the files *)
(* are written, run and removed between two consecutive yields.            *)
C18_NoFileAtYield ==
  [][\A r \in SingleRun :
       Yields(r) =>
         \A f \in {module_file, test_file} : ~disk[f].exists /\ ~disk'[f].exists]_vars

C18_Witness ==
  /\ proc[1].exited
  /\ proc[1].module.exists /\ proc[1].test.exists
  /\ Len(out[1]) > 0
  /\ out[1][Len(out[1])] = <<"event: ", "test_results", LF>>
  /\ \A f \in {module_file, test_file} : ~disk[f].exists

----------------------------------------------------------------------------
\* chunk k of the stream lies inside a stage's frame: after the frame's
\* event line and not after its blank line
InFrame(o, k) ==
  \E j \in 1..(k - 1) :
    /\ IsTagged(o[j])
    /\ \A m \in (j + 1)..k : o[m] # <<LF>>

\* one line "data: ..." ended by a newline, with no line break inside
IsDataLine(c) ==
  /\ Len(c) >= 2
  /\ c[1] = "data: "
  /\ c[Len(c)] = LF
  /\ \A m \in 2..(Len(c) - 1) : c[m] \notin LineBreaks

(* C19: every chunk emitted inside a stage's frame is one line that starts *)
(* with "data: " and holds no line break, whatever the payload; so every   *)
(* chunk of the stream is a status frame, a stage's event line, a data     *)
(* line or a blank line, and the status frame Done is emitted only as the  *)
(* last chunk of a run that returned.                                      *)
C19_PayloadCannotForgeFrames ==
  \A r \in SingleRun :
    \A k \in 1..Len(out[r]) :
      LET c == out[r][k]
      IN /\ InFrame(out[r], k) => IsDataLine(c)
         /\ \/ \E name \in {"Coder", "Tester", "TestAgent", "Documenter", "Done"} :
                 c = StatusFrame(name)
            \/ IsTagged(c)
            \/ IsDataLine(c)
            \/ c = <<LF>>
         /\ c = StatusFrame("Done") => (k = Len(out[r]) /\ pc[r] = "returned")

C19_Witness ==
  /\ pc[1] = "returned"
  /\ loc[1].code = <<"x", CR, "x">>
  /\ loc[1].docs = <<"x", LF, "x">>
  /\ Len(loc[1].results_text) > 0
  /\ Payload(out[1], "coder") = << <<"x">>, <<"x">> >>

----------------------------------------------------------------------------
(* MainSpec: one execution of main() of src/multi_agent_ollama.py *)

\* texts the backend may generate for main: two codes, and reviews that
\* hold or do not hold one of the two phrases, in either case
CodeA         == <<"a">>
CodeB         == <<"b">>
ReviewFix     == <<"f", "i", "x">>
ReviewGood    == <<SP, "L", "o", "o", "k", "s", SP, "G", "O", "O", "D", "!", LF>>
ReviewNoIssue == <<"o", "k", ":", SP, "n", "o", SP, "i", "s", "s", "u", "e", "s">>
ReviewNearly  == <<"n", "o", SP, "i", "s", "s", "u", "e">>
MainTexts ==
  {CodeA, CodeB, ReviewFix, ReviewGood, ReviewNoIssue, ReviewNearly}

MainReplies ==
  {[reach |-> TRUE, status |-> 500, body |-> <<>>]}
    \cup {[reach |-> TRUE, status |-> 200,
           body |-> <<[kind |-> "object", has |-> TRUE, response |-> t]>>] :
            t \in MainTexts}

\* <agent>.generate(...) up to requests.post, which blocks for the reply
MainCall ==
  /\ main(cli.pc).op = "generate"
  /\ cli' = [cli EXCEPT
       !.calls = Append(@,
          [agent |-> main(cli.pc).agent,
           request |-> Agent_generate(main_Agent(main(cli.pc).agent),
                                      main_Instruction(cli.pc, cli)),
           answered |-> FALSE, response |-> <<>>]),
       !.pc = main(cli.pc).wait]
  /\ UNCHANGED <<pc, loc, out, exc, calls, proc, disk, text, res>>

\* the backend answers: call_llm returns and the statement assigns the
\* text, or call_llm raises and the exception ends main
MainReplyArrives ==
  /\ main(cli.pc).op = "post"
  /\ \E reply \in MainReplies :
       LET got == call_llm(reply)
           l == main(cli.pc).of
       IN IF got.ok
          THEN cli' = [cli EXCEPT
                 ![main(l).var] = got.text,
                 !.calls[Len(cli.calls)].answered = TRUE,
                 !.calls[Len(cli.calls)].response = got.text,
                 !.pc = main(l).nxt]
          ELSE cli' = [cli EXCEPT
                 !.pc = "raised",
                 !.exc = [type |-> got.type, at |-> cli.pc]]
  /\ UNCHANGED <<pc, loc, out, exc, calls, proc, disk, text, res>>

\* for round_num in range(1, max_rounds + 1)
MainFor ==
  /\ main(cli.pc).op = "for"
  /\ IF cli.round_num < max_rounds
     THEN cli' = [cli EXCEPT !.round_num = @ + 1, !.pc = main(cli.pc).body]
     ELSE cli' = [cli EXCEPT !.pc = main(cli.pc).done]
  /\ UNCHANGED <<pc, loc, out, exc, calls, proc, disk, text, res>>

\* if "no issues" in ... or "looks good" in ...: break
MainIf ==
  /\ main(cli.pc).op = "if"
  /\ cli' = [cli EXCEPT !.pc =
       IF Satisfied(cli.feedback) THEN main(cli.pc).break ELSE main(cli.pc).nxt]
  /\ UNCHANGED <<pc, loc, out, exc, calls, proc, disk, text, res>>

MainNext == MainCall \/ MainReplyArrives \/ MainFor \/ MainIf

MainSpec == Init /\ [][MainNext]_vars

\* how often main has called the agent of that name
CountOf(name) ==
  Cardinality({k \in 1..Len(cli.calls) : cli.calls[k].agent = name})

\* the phrase occurs in the text, letters compared without regard to case
MentionsAnyCase(s, phrase) ==
  \E i \in 1..Len(s) :
    /\ i + Len(phrase) - 1 <= Len(s)
    /\ \A j \in 1..Len(phrase) : lower(<<s[i + j - 1]>>) = <<phrase[j]>>

ReviewIsContent(k) ==
  /\ cli.calls[k].agent = "Tester"
  /\ cli.calls[k].answered
  /\ \/ MentionsAnyCase(cli.calls[k].response, NoIssues)
     \/ MentionsAnyCase(cli.calls[k].response, LooksGood)

\* the text the Coder returned last before call k
LatestCode(k) ==
  LET m == CHOOSE m \in 1..(k - 1) :
             /\ cli.calls[m].agent = "Coder"
             /\ \A n \in (m + 1)..(k - 1) : cli.calls[n].agent # "Coder"
  IN cli.calls[m].response

(* C20: in main() of multi_agent_ollama.py the Tester is called at most 2  *)
(* times and the Coder at most 3 times; after a review that holds          *)
(* "no issues" or "looks good" in any case the Coder is not called again   *)
(* and the next call is the Documenter's; the Documenter is called at most *)
(* once, as the last call, after at least one review, with the code the    *)
(* Coder returned last; and a main that returned has called the Tester at  *)
(* least once and the Documenter exactly once.                             *)
C20_ReviewLoopBounded ==
  /\ CountOf("Tester") <= 2
  /\ CountOf("Coder") <= 3
  /\ CountOf("Documenter") <= 1
  /\ \A k \in 1..Len(cli.calls) :
       /\ ReviewIsContent(k) =>
            \A m \in (k + 1)..Len(cli.calls) :
              cli.calls[m].agent = "Documenter" /\ m = k + 1
       /\ cli.calls[k].agent = "Documenter" =>
            /\ k = Len(cli.calls)
            /\ CountOf("Tester") >= 1
            /\ \A m \in 1..(k - 1) : cli.calls[m].answered
            /\ cli.calls[k].request.prompt =
                 <<"You are ", "Documenter", ", ",
                   "a technical writer who writes comprehensive docstrings, usage examples, and readme sections",
                   ".", LF, "Instruction: ",
                   "Write a detailed docstring for the following function, include type hints, examples, and edge case descriptions:",
                   LF>> \o LatestCode(k) \o <<LF, "Provide your response below:">>
  /\ cli.pc = "returned" =>
       /\ CountOf("Tester") >= 1
       /\ CountOf("Documenter") = 1
       /\ cli.calls[Len(cli.calls)].answered

C20_Witness ==
  /\ cli.pc = "returned"
  /\ CountOf("Tester") = 2
  /\ CountOf("Coder") = 3
  /\ cli.calls[1].response # cli.calls[5].response
  /\ cli.calls[3].response # cli.calls[5].response

============================================================================
